---- MODULE Spec2Model ----
(***************************************************************************)
(* arteria-delivery: the staging order and delivery order state machines,  *)
(* the supervision of the external copy / upload / release processes and   *)
(* the single tornado event loop on which the handlers and coroutines      *)
(* interleave.  One action is the code a handler or coroutine runs between *)
(* two suspension points (a `yield` on a future that is not yet done).     *)
(***************************************************************************)
EXTENDS Integers, Sequences, FiniteSets, TLC

VARIABLES
    staging_orders,   \* table staging_orders: id -> row (db_models.StagingOrder)
    copy_dir,         \* id -> position of the _copy_dir coroutine of that order
    fs,               \* the staging_target directories that exist on disk
    procs,            \* pid -> external process started by ExternalProgramService.run
    delivery_orders,  \* table delivery_orders: id -> row (db_models.DeliveryOrder)
    delivery_history, \* id -> the values delivery_status of that row has taken, in order
    delivery_calls,   \* id -> the deliver call that made the row, and where its coroutines stand
    dds_deliveries,   \* table dds_deliveries: dds_project_id -> row (db_models.DDSDelivery)
    dds_puts,         \* table dds_puts: id -> row (db_models.DDSPut)
    requests,         \* the deliver-project requests: where DeliverProjectHandler.post stands
    delivery_sources, \* table delivery_sources: the (project, source) pairs of the staging route
    response          \* outcome of the service call made by the latest step

staging_vars == <<staging_orders, copy_dir>>

project_vars == <<dds_deliveries, dds_puts, requests, delivery_sources>>

delivery_vars == <<delivery_orders, delivery_history, delivery_calls, project_vars>>

vars == <<staging_orders, copy_dir, fs, procs, delivery_orders, delivery_history,
          delivery_calls, dds_deliveries, dds_puts, requests, delivery_sources, response>>

----------------------------------------------------------------------------
(* Bounds of the model *)

\* staging orders created when the staging service is checked on its own
MaxStagingOrders == 2

\* rows of staging_orders and delivery_orders together when deliveries are checked
MaxOrders == 3

\* requests to deliver or stage a whole project when that route is checked
MaxRequests == 2
MaxCalls == 3
MaxEntries == 2

----------------------------------------------------------------------------
(* Values *)

\* Python's None, and a value that is present
None == <<>>

Some(x) == <<x>>

\* db_models.StagingStatus
StagingStatus == {"pending", "staging_in_progress", "staging_successful", "staging_failed"}

\* what the caller of a service method gets: a returned value or a raised exception
NoCall == [op |-> "none", id |-> 0, val |-> "none"]

Call(op, id, val) == [op |-> op, id |-> id, val |-> val]

\* the text rsync prints after "Total file size: " (empty: rsync printed no such line)
Numerals == { <<"1", ",", "0", "2", "4">>, <<"1", ".", "0", "2", "4">> }

RsyncStdouts == Numerals

Digits == {"0", "1", "2", "4", "5"}

DigitValue(c) == CASE c = "0" -> 0 [] c = "1" -> 1 [] c = "2" -> 2 [] c = "4" -> 4 [] c = "5" -> 5

\* str.replace(",", "")
RECURSIVE RemoveCommas(_)
RemoveCommas(s) ==
    IF s = <<>> THEN <<>>
    ELSE IF Head(s) = "," THEN RemoveCommas(Tail(s))
    ELSE <<Head(s)>> \o RemoveCommas(Tail(s))

\* int(...) of a string of digits
RECURSIVE ToInt(_)
ToInt(s) == IF s = <<>> THEN 0 ELSE 10 * ToInt(SubSeq(s, 1, Len(s) - 1)) + DigitValue(s[Len(s)])

\* re.search(r'Total file size: ([\d,]+) bytes', stdout): the group, or None
SearchTotalFileSize(stdout) ==
    IF Len(stdout) > 0 /\ \A i \in 1..Len(stdout) : stdout[i] \in Digits \cup {","}
    THEN Some(stdout)
    ELSE None

\* int(match.group(1).replace(",", ""))
SizeOfTransfer(group) == ToInt(RemoveCommas(group[1]))

----------------------------------------------------------------------------
(* External processes *)

\* ids of the processes; the OS never hands the same pid to two of them here
RsyncPid(o) == <<"rsync", o>>

\* whether Subprocess(cmd, ...) starts the child (TRUE) or raises
SpawnOutcomes == BOOLEAN

\* Subprocess(cmd, ...): a running child
Run(pid) == pid :> [state |-> "running", status_code |-> None, stdout |-> <<>>, signalled |-> FALSE]

\* the statuses a child that was not signalled exits with
ExitCodes == {0, 1}

\* exit status tornado reports for a child ended by SIGTERM
SIGTERM == -15

\* ids the DDS gives to the projects it creates, one per create command
NewProjectIds == <<"snpseq00003", "snpseq00004", "snpseq00005", "snpseq00006">>

\* the strings that match snpseq\d+ among those the tool prints
SnpseqIds == {"snpseq00001", "snpseq00009"} \cup {NewProjectIds[i] : i \in DOMAIN NewProjectIds}

\* a line of the output of `dds project create`
Line(text, id) == [text |-> text, id |-> id]

\* what `dds project create` prints when it exits 0: the line with the id, the
\* line after other text and followed by a second such line, no such line, and
\* the line with something that is not a project id
CreateStdouts(r) ==
    { <<Line("Project created with id: ", NewProjectIds[r])>>,
      <<Line("Using token", ""), Line("Project created with id: ", NewProjectIds[r]),
        Line("Project created with id: ", "snpseq00009")>>,
      <<Line("Using token", "")>>,
      <<Line("Project created with id: ", "none")>> }

StdoutsOf(pid, code) ==
    IF code # 0 THEN {<<>>}
    ELSE IF pid[1] = "rsync" THEN RsyncStdouts
    ELSE IF pid[1] = "dds_create" THEN CreateStdouts(pid[2])
    ELSE {<<>>}

\* the child ends; wait_for_exit's future resolves
ProcessExit(pid) ==
    /\ pid \in DOMAIN procs
    /\ procs[pid].state = "running"
    /\ \E code \in (IF procs[pid].signalled THEN {SIGTERM} ELSE ExitCodes) :
         \E out \in StdoutsOf(pid, code) :
            procs' = [procs EXCEPT ![pid] = [@ EXCEPT !.state = "exited",
                                                      !.status_code = Some(code),
                                                      !.stdout = out]]
    /\ response' = NoCall
    /\ UNCHANGED <<staging_orders, copy_dir, fs, delivery_vars>>

\* ExternalProgramService.wait_for_execution: raises on a non-zero status
WaitRaises(pid) == procs[pid].status_code # Some(0)

----------------------------------------------------------------------------
(* Staging *)

StagingIds == 1..Len(staging_orders)

\* a staging target that depends on the staging dir alone
SharedStagingTarget(o) == <<"staging_dir", 0>>

\* StagingOrder.staging_target, assigned from the staging dir and the id
StagingTarget(o) == <<"staging_dir", o>>

\* StagingService.create_new_stage_order
create_new_stage_order ==
    /\ staging_orders' = Append(staging_orders,
                                [status |-> "pending", pid |-> None, size |-> None,
                                 staging_target |-> StagingTarget(Len(staging_orders) + 1)])
    /\ copy_dir' = Append(copy_dir, "idle")
    /\ response' = Call("create_new_stage_order", Len(staging_orders) + 1, "created")
    /\ UNCHANGED <<fs, procs, delivery_vars>>

\* a stage_order that starts every order whose copy is not running
StartableUnlessInProgress(status) == status # "staging_in_progress"

\* a stage_order that also restarts failed orders
StartableOrFailed(status) == status \in {"pending", "staging_failed"}

\* the check at the head of stage_order
Startable(status) == status = "pending"

\* a start that leaves the pid to be written after the wait
StartedWithoutPid(row, pid) == [row EXCEPT !.status = "staging_in_progress"]

\* the writes before the first suspension: staging_in_progress committed by
\* stage_order, then the pid committed by _copy_dir
Started(row, pid) == [row EXCEPT !.status = "staging_in_progress", !.pid = pid]

\* except clauses that all hand the exception on
ReraisesAlways(routine) == TRUE

\* the except clause of stage_order ends with `raise e`, that of _copy_dir
\* only logs
Reraises(routine) == routine = "stage_order"

\* StagingService.stage_order up to its first suspension, _copy_dir up to its
\* wait_for_execution included
stage_order(o) ==
    /\ o \in StagingIds
    /\ UNCHANGED delivery_vars
    /\ IF ~Startable(staging_orders[o].status)
       THEN \* InvalidStatusException, caught by the handler's own except clause
            /\ staging_orders' = [staging_orders EXCEPT ![o].status = "staging_failed"]
            /\ response' = Call("stage_order", o, "InvalidStatusException")
            /\ UNCHANGED <<copy_dir, fs, procs>>
       ELSE \E makedirs_ok \in BOOLEAN, run_ok \in SpawnOutcomes :
            IF StagingTarget(o) \notin fs /\ ~makedirs_ok
            THEN \* makedirs raised: except clause of stage_order
                 /\ staging_orders' = [staging_orders EXCEPT ![o].status = "staging_failed"]
                 /\ response' = Call("stage_order", o, IF Reraises("stage_order")
                                                       THEN "OSError" ELSE "returned")
                 /\ UNCHANGED <<copy_dir, fs, procs>>
            ELSE /\ fs' = fs \cup {StagingTarget(o)}
                 /\ IF ~run_ok
                    THEN \* run raised inside _copy_dir: caught there, not re-raised
                         /\ staging_orders' = [staging_orders EXCEPT ![o].status = "staging_failed"]
                         /\ copy_dir' = [copy_dir EXCEPT ![o] = "done"]
                         /\ response' = Call("stage_order", o, IF Reraises("_copy_dir")
                                                               THEN "OSError" ELSE "returned")
                         /\ UNCHANGED procs
                    ELSE /\ staging_orders' = [staging_orders EXCEPT
                                                  ![o] = Started(@, RsyncPid(o))]
                         /\ procs' = procs @@ Run(RsyncPid(o))
                         /\ copy_dir' = [copy_dir EXCEPT ![o] = "wait_for_execution"]
                         /\ response' = Call("stage_order", o, "suspended")

\* breakpoint(): the debugger hook either returns or raises BdbQuit
BreakpointOutcomes == {"continue", "BdbQuit"}

\* _copy_dir from the return of wait_for_execution to its end
copy_dir_resume(o) ==
    /\ o \in StagingIds
    /\ copy_dir[o] = "wait_for_execution"
    /\ procs[RsyncPid(o)].state = "exited"
    /\ \E bp \in BreakpointOutcomes :
         LET p == procs[RsyncPid(o)]
             group == SearchTotalFileSize(p.stdout)
         IN  IF ~WaitRaises(RsyncPid(o)) /\ bp = "continue" /\ group # None
             THEN /\ staging_orders' = [staging_orders EXCEPT
                                           ![o].size = Some(SizeOfTransfer(group)),
                                           ![o].status = "staging_successful"]
                  /\ copy_dir' = [copy_dir EXCEPT ![o] = "done"]
             ELSE /\ staging_orders' = [staging_orders EXCEPT ![o].status = "staging_failed"]
                  /\ copy_dir' = [copy_dir EXCEPT ![o] = IF Reraises("_copy_dir")
                                                         THEN "raised" ELSE "done"]
    /\ response' = NoCall
    /\ UNCHANGED <<fs, procs, delivery_vars>>

\* os.kill(pid, SIGTERM) reaches a running child or one not yet reaped;
\* it raises OSError for a child that was reaped
KillOutcomes(pid) ==
    IF procs[pid].state = "running" THEN {"ok"} ELSE {"ok", "OSError"}

\* a kill that also signals the process of a finished order
KillableOrSuccessful(status) == status \in {"staging_in_progress", "staging_successful"}

\* the guard of kill_process_of_staging_order
Killable(status) == status = "staging_in_progress"

\* a kill that forgets the status write
KilledStatusKept(row) == row

\* the else clause of kill_process_of_staging_order
Killed(row) == [row EXCEPT !.status = "staging_failed"]

\* StagingService.kill_process_of_staging_order
kill_process_of_staging_order(o) ==
    IF o \notin StagingIds
    THEN /\ response' = Call("kill_process_of_staging_order", o, "False")
         /\ UNCHANGED <<staging_orders, copy_dir, fs, procs, delivery_vars>>
    ELSE IF ~Killable(staging_orders[o].status)
    THEN /\ response' = Call("kill_process_of_staging_order", o, "False")
         /\ UNCHANGED <<staging_orders, copy_dir, fs, procs, delivery_vars>>
    ELSE \E outcome \in KillOutcomes(staging_orders[o].pid) :
         IF outcome = "OSError"
         THEN /\ response' = Call("kill_process_of_staging_order", o, "False")
              /\ UNCHANGED <<staging_orders, copy_dir, fs, procs, delivery_vars>>
         ELSE /\ procs' = [procs EXCEPT ![staging_orders[o].pid].signalled = TRUE]
              /\ staging_orders' = [staging_orders EXCEPT ![o] = Killed(@)]
              /\ response' = Call("kill_process_of_staging_order", o, "True")
              /\ UNCHANGED <<copy_dir, fs, delivery_vars>>

----------------------------------------------------------------------------
(* Delivery of a staged directory *)

\* db_models.DeliveryStatus
DeliveryStatus == {"pending", "delivery_in_progress", "delivery_successful",
                   "delivery_failed", "delivery_skipped"}

\* the DDS project ids a caller may name; the first has a dds_deliveries row
DdsProjects == {"snpseq00001", "snpseq00002"}

DeliveryIds == 1..Len(delivery_orders)

PutPid(d) == <<"dds_put", d>>

ReleasePid(d) == <<"dds_release", d>>

\* a delivery that also accepts orders whose staging failed
DeliverableOrFailed(s) ==
    s \in StagingIds /\ staging_orders[s].status \in {"staging_successful", "staging_failed"}

\* the check at the head of DDSProject.deliver and DDSService.deliver_by_staging_id
Deliverable(s) == s \in StagingIds /\ staging_orders[s].status = "staging_successful"

\* a test that never finds an upload
has_no_puts(project_id) == FALSE

\* a test that looks for the uploads that are over instead of those under way
has_finished_puts(project_id) ==
    \E i \in DOMAIN dds_puts :
        /\ dds_puts[i].dds_project_id = project_id
        /\ dds_puts[i].status = "delivery_successful"

\* DDSProject.has_ongoing_puts
has_ongoing_puts(project_id) ==
    \E i \in DOMAIN dds_puts :
        /\ dds_puts[i].dds_project_id = project_id
        /\ dds_puts[i].status = "delivery_in_progress"

\* a delivery that takes over the row of an earlier delivery of the same
\* staging order to the same project when there is one
ReusedDeliveryOrder(s, project, statuses, pid, call) ==
    LET row == [delivery_status |-> statuses[Len(statuses)], dds_pid |-> pid,
                staging_order_id |-> s, delivery_project |-> project]
        earlier == {e \in DOMAIN delivery_orders :
                       /\ delivery_orders[e].staging_order_id = s
                       /\ delivery_orders[e].delivery_project = project}
    IN  IF earlier = {}
        THEN /\ delivery_orders' = Append(delivery_orders, row)
             /\ delivery_history' = Append(delivery_history, statuses)
             /\ delivery_calls' = Append(delivery_calls, call)
        ELSE LET e == CHOOSE e \in earlier : TRUE
             IN  /\ delivery_orders' = [delivery_orders EXCEPT ![e] = row]
                 /\ delivery_history' = [delivery_history EXCEPT ![e] = statuses]
                 /\ delivery_calls' = [delivery_calls EXCEPT ![e] = call]

\* delivery_repo.create_delivery_order followed by the writes of delivery_status
\* the same step makes
NewDeliveryOrder(s, project, statuses, pid, call) ==
    /\ delivery_orders' = Append(delivery_orders,
                                 [delivery_status |-> statuses[Len(statuses)],
                                  dds_pid |-> pid,
                                  staging_order_id |-> s,
                                  delivery_project |-> project])
    /\ delivery_history' = Append(delivery_history, statuses)
    /\ delivery_calls' = Append(delivery_calls, call)

\* a routine that records the success of an upload but not its failure
SetDeliveryStatusOnSuccess(d, status) ==
    IF status = "delivery_failed"
    THEN UNCHANGED <<delivery_orders, delivery_history>>
    ELSE /\ delivery_orders' = [delivery_orders EXCEPT ![d].delivery_status = status]
         /\ delivery_history' = [delivery_history EXCEPT ![d] = Append(@, status)]

SetDeliveryStatus(d, status) ==
    /\ delivery_orders' = [delivery_orders EXCEPT ![d].delivery_status = status]
    /\ delivery_history' = [delivery_history EXCEPT ![d] = Append(@, status)]

\* the statuses a skipped delivery writes
SkippedStatuses == <<"pending", "delivery_skipped">>

\* a delivery that ignores the skip flag
NeverSkips(skip_flag) == FALSE

\* the test `if skip_delivery:` / `if skip_mover:`
Skips(skip_flag) == skip_flag

\* an upload routine that releases whatever was requested
AlwaysReleases(release) == TRUE

\* the test `if release:` of _run_delivery
Releases(release) == release

\* an rmtree that leaves the directory in place
rmtreeKeeps(dirs, target) == dirs

\* shutil.rmtree(target) on a directory that exists
rmtree(dirs, target) == dirs \ {target}

\* a delivery that puts the staging order it has delivered back to pending
ResetStagingOrder(row) == [row EXCEPT !.status = "pending"]

\* the staging order as a delivery leaves it: the routines read its status,
\* staging path and staging_target and assign nothing
DeliveredStagingOrder(row) == row

\* DDSProject.deliver, with _run_delivery up to its wait_for_execution
deliver(s, project) ==
    /\ UNCHANGED <<copy_dir, fs, project_vars>>
    /\ staging_orders' = IF Deliverable(s)
                         THEN [staging_orders EXCEPT ![s] = DeliveredStagingOrder(@)]
                         ELSE staging_orders
    /\ IF ~Deliverable(s)
       THEN /\ response' = Call("deliver", s, "InvalidStatusException")
            /\ UNCHANGED <<procs, delivery_orders, delivery_history, delivery_calls>>
       ELSE IF project \notin DOMAIN dds_deliveries
       THEN \* get_ngi_project_name reads an attribute of None
            /\ response' = Call("deliver", s, "AttributeError")
            /\ UNCHANGED <<procs, delivery_orders, delivery_history, delivery_calls>>
       ELSE \E skip_delivery \in BOOLEAN, release \in BOOLEAN :
            LET d == Len(delivery_orders) + 1
                call == [route |-> "DDSProject.deliver", skip |-> skip_delivery,
                         release |-> release, pc |-> "done", result |-> "returned"]
            IN  /\ Len(staging_orders) + Len(delivery_orders) < MaxOrders
                /\ IF Skips(skip_delivery)
                   THEN /\ NewDeliveryOrder(s, project, SkippedStatuses, None, call)
                        /\ response' = Call("deliver", s, "returned")
                        /\ UNCHANGED procs
                   ELSE \E run_ok \in SpawnOutcomes :
                        IF ~run_ok
                        THEN \* run raised: except clause of _run_delivery; the
                             \* exception stays in the future nobody awaits
                             /\ NewDeliveryOrder(s, project, <<"pending", "delivery_failed">>,
                                                 None, call)
                             /\ response' = Call("deliver", s, "returned")
                             /\ UNCHANGED procs
                        ELSE /\ NewDeliveryOrder(s, project,
                                    <<"pending", "delivery_in_progress">>, PutPid(d),
                                    [call EXCEPT !.pc = "wait_upload"])
                             /\ procs' = procs @@ Run(PutPid(d))
                             /\ response' = Call("deliver", s, "returned")

\* DDSProject._run_delivery from the return of wait_for_execution to its next
\* suspension (the wait in release) or to its end
run_delivery_resume(d) ==
    /\ d \in DeliveryIds
    /\ delivery_calls[d].route = "DDSProject.deliver"
    /\ delivery_calls[d].pc = "wait_upload"
    /\ procs[PutPid(d)].state = "exited"
    /\ response' = NoCall
    /\ UNCHANGED <<staging_vars, project_vars>>
    /\ LET target == StagingTarget(delivery_orders[d].staging_order_id)
           finish(status) ==
               /\ SetDeliveryStatus(d, status)
               /\ delivery_calls' = [delivery_calls EXCEPT ![d].pc = "done"]
       IN  IF WaitRaises(PutPid(d)) \/ procs[PutPid(d)].status_code # Some(0)
           THEN finish("delivery_failed") /\ UNCHANGED <<fs, procs>>
           ELSE IF target \notin fs
           THEN \* shutil.rmtree raised FileNotFoundError
                finish("delivery_failed") /\ UNCHANGED <<fs, procs>>
           ELSE /\ fs' = rmtree(fs, target)
                /\ IF ~Releases(delivery_calls[d].release)
                   THEN finish("delivery_successful") /\ UNCHANGED procs
                   ELSE IF has_ongoing_puts(delivery_orders[d].delivery_project)
                   THEN \* the assert at the head of release
                        finish("delivery_failed") /\ UNCHANGED procs
                   ELSE \E run_ok \in SpawnOutcomes :
                        IF ~run_ok
                        THEN finish("delivery_failed") /\ UNCHANGED procs
                        ELSE /\ procs' = procs @@ Run(ReleasePid(d))
                             /\ delivery_calls' = [delivery_calls EXCEPT ![d].pc = "wait_release"]
                             /\ UNCHANGED <<delivery_orders, delivery_history>>

\* DDSProject.release from the return of its wait_for_execution, and the rest
\* of _run_delivery
release_resume(d) ==
    /\ d \in DeliveryIds
    /\ delivery_calls[d].pc = "wait_release"
    /\ procs[ReleasePid(d)].state = "exited"
    /\ SetDeliveryStatus(d, IF WaitRaises(ReleasePid(d)) THEN "delivery_failed"
                            ELSE "delivery_successful")
    /\ delivery_calls' = [delivery_calls EXCEPT ![d].pc = "done"]
    /\ response' = NoCall
    /\ UNCHANGED <<staging_vars, fs, procs, project_vars>>

\* DDSService.deliver_by_staging_id, with _run_dds_put up to its wait_for_execution
deliver_by_staging_id(s, project) ==
    /\ UNCHANGED <<copy_dir, project_vars>>
    /\ staging_orders' = IF Deliverable(s)
                         THEN [staging_orders EXCEPT ![s] = DeliveredStagingOrder(@)]
                         ELSE staging_orders
    /\ IF ~Deliverable(s)
       THEN /\ response' = Call("deliver_by_staging_id", s, "InvalidStatusException")
            /\ UNCHANGED <<fs, procs, delivery_orders, delivery_history, delivery_calls>>
       ELSE \E skip_mover \in BOOLEAN :
            LET d == Len(delivery_orders) + 1
                call == [route |-> "DDSService.deliver_by_staging_id", skip |-> skip_mover,
                         release |-> FALSE, pc |-> "done", result |-> "returned"]
            IN  /\ Len(staging_orders) + Len(delivery_orders) < MaxOrders
                /\ IF Skips(skip_mover)
                   THEN \* the status write, then shutil.rmtree
                        /\ UNCHANGED procs
                        /\ IF StagingTarget(s) \in fs
                           THEN /\ NewDeliveryOrder(s, project, SkippedStatuses, None, call)
                                /\ fs' = rmtree(fs, StagingTarget(s))
                                /\ response' = Call("deliver_by_staging_id", s, "returned")
                           ELSE /\ NewDeliveryOrder(s, project, SkippedStatuses, None,
                                        [call EXCEPT !.result = "FileNotFoundError"])
                                /\ fs' = fs
                                /\ response' = Call("deliver_by_staging_id", s, "FileNotFoundError")
                   ELSE \E run_ok \in SpawnOutcomes :
                        /\ fs' = fs
                        /\ IF ~run_ok
                           THEN \* run raised: except clause of _run_dds_put, re-raised
                                \* through the yield
                                /\ NewDeliveryOrder(s, project, <<"pending", "delivery_failed">>,
                                        None, [call EXCEPT !.result = "OSError"])
                                /\ response' = Call("deliver_by_staging_id", s, "OSError")
                                /\ UNCHANGED procs
                           ELSE /\ NewDeliveryOrder(s, project,
                                        <<"pending", "delivery_in_progress">>, None,
                                        [call EXCEPT !.pc = "wait_upload", !.result = "suspended"])
                                /\ procs' = procs @@ Run(PutPid(d))
                                /\ response' = Call("deliver_by_staging_id", s, "suspended")

\* DDSService._run_dds_put from the return of wait_for_execution to its end
run_dds_put_resume(d) ==
    /\ d \in DeliveryIds
    /\ delivery_calls[d].route = "DDSService.deliver_by_staging_id"
    /\ delivery_calls[d].pc = "wait_upload"
    /\ procs[PutPid(d)].state = "exited"
    /\ IF WaitRaises(PutPid(d))
       THEN /\ SetDeliveryStatus(d, "delivery_failed")
            /\ delivery_calls' = [delivery_calls EXCEPT ![d].pc = "run_dds_put_raised"]
       ELSE /\ SetDeliveryStatus(d, "delivery_successful")
            /\ delivery_calls' = [delivery_calls EXCEPT ![d].pc = "run_dds_put_returned"]
    /\ response' = NoCall
    /\ UNCHANGED <<staging_vars, fs, procs, project_vars>>

\* DDSService.deliver_by_staging_id from the return of its yield to its end
deliver_by_staging_id_resume(d) ==
    /\ d \in DeliveryIds
    /\ delivery_calls[d].pc \in {"run_dds_put_raised", "run_dds_put_returned"}
    /\ LET target == StagingTarget(delivery_orders[d].staging_order_id)
       IN  IF delivery_calls[d].pc = "run_dds_put_raised"
           THEN /\ delivery_calls' = [delivery_calls EXCEPT ![d].pc = "done",
                                                            ![d].result = "RuntimeError"]
                /\ fs' = fs
           ELSE IF target \notin fs
           THEN /\ delivery_calls' = [delivery_calls EXCEPT ![d].pc = "done",
                                                            ![d].result = "FileNotFoundError"]
                /\ fs' = fs
           ELSE /\ delivery_calls' = [delivery_calls EXCEPT ![d].pc = "done",
                                                            ![d].result = "returned"]
                /\ fs' = rmtree(fs, target)
    /\ response' = NoCall
    /\ UNCHANGED <<staging_vars, procs, delivery_orders, delivery_history,
                   project_vars>>

\* the service dies inside stage_order right after _copy_dir has spawned
\* rsync: the commit of staging_in_progress and makedirs are done, pid is not
\* yet committed
crash_in_stage_order(o) ==
    /\ o \in StagingIds
    /\ Startable(staging_orders[o].status)
    /\ staging_orders' = [staging_orders EXCEPT ![o].status = "staging_in_progress"]
    /\ fs' = fs \cup {StagingTarget(o)}
    /\ procs' = procs @@ Run(RsyncPid(o))
    /\ copy_dir' = [copy_dir EXCEPT ![o] = "crashed"]
    /\ response' = Call("crash", o, "stage_order")
    /\ UNCHANGED delivery_vars

\* the service dies inside _run_delivery or _run_dds_put right after the
\* upload was spawned: the order was created and committed as pending, the
\* write of delivery_in_progress is not yet committed
crash_in_run_delivery(s, project, route) ==
    /\ Deliverable(s)
    /\ route = "DDSProject.deliver" => project \in DOMAIN dds_deliveries
    /\ Len(staging_orders) + Len(delivery_orders) < MaxOrders
    /\ NewDeliveryOrder(s, project, <<"pending">>, None,
                        [route |-> route, skip |-> FALSE, release |-> FALSE,
                         pc |-> "crashed", result |-> "crashed"])
    /\ procs' = procs @@ Run(PutPid(Len(delivery_orders) + 1))
    /\ response' = Call("crash", s, route)
    /\ UNCHANGED <<staging_vars, fs, project_vars>>

----------------------------------------------------------------------------
(* Delivery of a whole project *)

ProjectNames == {"AB-1234", "AB-5678"}

SourceNames == {"runfolderX", "runfolderY"}

RequestIds == 1..Len(requests)

PutIds == 1..Len(dds_puts)

CreatePid(r) == <<"dds_create", r>>

ProjectPutPid(r) == <<"dds_put_project", r>>

ProjectReleasePid(r) == <<"dds_release_project", r>>

\* re.compile(r'Project created with id: (snpseq\d+)') matches the line
PatternMatches(line) == line.text = "Project created with id: " /\ line.id \in SnpseqIds

\* a parse that takes the last match instead of the first
parse_last_dds_project_id(dds_output) ==
    LET hits == {i \in DOMAIN dds_output : PatternMatches(dds_output[i])}
    IN  IF hits = {} THEN None
        ELSE Some(dds_output[CHOOSE i \in hits : \A j \in hits : i >= j].id)

\* DDSProject._parse_dds_project_id: group 1 of the first match, or None when
\* the exception is raised
parse_dds_project_id(dds_output) ==
    LET hits == {i \in DOMAIN dds_output : PatternMatches(dds_output[i])}
    IN  IF hits = {} THEN None
        ELSE Some(dds_output[CHOOSE i \in hits : \A j \in hits : i <= j].id)

\* a guard that does not count the uploads that failed
was_delivered_unless_failed(ngi_project_name, source) ==
    \E i \in PutIds :
        /\ dds_puts[i].dds_project_id \in DOMAIN dds_deliveries
        /\ dds_deliveries[dds_puts[i].dds_project_id].ngi_project_name = ngi_project_name
        /\ dds_puts[i].delivery_source = source
        /\ dds_puts[i].status # "delivery_failed"

\* DatabaseBasedDDSPutRepository.was_delivered_before: a DDSPut of that source
\* joined to a DDSDelivery of that project name
was_delivered_before(ngi_project_name, source) ==
    \E i \in PutIds :
        /\ dds_puts[i].dds_project_id \in DOMAIN dds_deliveries
        /\ dds_deliveries[dds_puts[i].dds_project_id].ngi_project_name = ngi_project_name
        /\ dds_puts[i].delivery_source = source

\* delivery_sources_repo.source_exists
source_exists(project_name, source) == <<project_name, source>> \in delivery_sources

\* a guard that only looks at the uploads of the deliver-project route
RejectsUploadedOnly(project_name, source, force_delivery) ==
    was_delivered_before(project_name, source) /\ ~force_delivery

\* a guard that does not look at force_delivery
RejectsEvenForced(project_name, source, force_delivery) ==
    was_delivered_before(project_name, source) \/ source_exists(project_name, source)

\* the test of DeliverProjectHandler.post that answers FORBIDDEN
Rejects(project_name, source, force_delivery) ==
    (was_delivered_before(project_name, source) \/ source_exists(project_name, source))
    /\ ~force_delivery

NewRequest(project_name, source, force_delivery, release, pc, answer) ==
    requests' = Append(requests, [route |-> "deliver_project",
                                  project_name |-> project_name, source |-> source,
                                  force_delivery |-> force_delivery, release |-> release,
                                  pc |-> pc, answer |-> answer, error |-> "none",
                                  dds_project_id |-> "none", put |-> 0])

\* the request ends here; an exception raised after the answer was sent is
\* only logged
Finish(r, error) ==
    requests' = [requests EXCEPT ![r].pc = "done", ![r].error = error,
                                 ![r].answer = IF @ = "none" THEN error ELSE @]

\* DeliverProjectHandler.post up to the wait in DDSProject.new
DeliverProjectPost(project_name, source, force_delivery, release) ==
    LET r == Len(requests) + 1
        op == "deliver_project"
    IN  /\ UNCHANGED <<staging_vars, fs, delivery_orders, delivery_history, delivery_calls,
                       dds_deliveries, dds_puts, delivery_sources>>
        /\ IF Rejects(project_name, source, force_delivery)
           THEN /\ NewRequest(project_name, source, force_delivery, release, "done", "FORBIDDEN")
                /\ response' = Call(op, r, "FORBIDDEN")
                /\ UNCHANGED procs
           ELSE \E run_ok \in SpawnOutcomes :
                IF ~run_ok
                THEN /\ NewRequest(project_name, source, force_delivery, release, "done", "OSError")
                     /\ response' = Call(op, r, "OSError")
                     /\ UNCHANGED procs
                ELSE /\ NewRequest(project_name, source, force_delivery, release,
                                   "wait_create", "none")
                     /\ procs' = procs @@ Run(CreatePid(r))
                     /\ response' = Call(op, r, "suspended")

\* DatabaseBasedDDSDeliveryRepository.register_dds_delivery
register_dds_delivery(dds_project_id, ngi_project_name) ==
    dds_deliveries' = dds_deliveries @@
        (dds_project_id :> [ngi_project_name |-> ngi_project_name,
                            status |-> "delivery_in_progress"])

\* DDSProject.new from the return of wait_for_execution to its end
new_resume(r) ==
    /\ r \in RequestIds
    /\ requests[r].pc = "wait_create"
    /\ procs[CreatePid(r)].state = "exited"
    /\ response' = NoCall
    /\ UNCHANGED <<staging_vars, fs, procs, delivery_orders, delivery_history, delivery_calls,
                   dds_puts, delivery_sources>>
    /\ LET raised(error) ==
               /\ requests' = [requests EXCEPT ![r].pc = "new_raised", ![r].error = error]
               /\ UNCHANGED dds_deliveries
           hits == parse_dds_project_id(procs[CreatePid(r)].stdout)
       IN  IF WaitRaises(CreatePid(r)) THEN raised("RuntimeError")
           ELSE IF hits = None THEN raised("CannotParseDDSOutputException")
           ELSE IF hits[1] \in DOMAIN dds_deliveries THEN raised("IntegrityError")
           ELSE /\ register_dds_delivery(hits[1], requests[r].project_name)
                /\ requests' = [requests EXCEPT ![r].pc = "new_returned",
                                                ![r].dds_project_id = hits[1]]

\* DatabaseBasedDDSPutRepository.register_dds_put
register_dds_put(dds_project_id, dds_pid, delivery_source) ==
    dds_puts' = Append(dds_puts, [dds_project_id |-> dds_project_id, dds_pid |-> dds_pid,
                                  delivery_source |-> delivery_source,
                                  status |-> "delivery_in_progress"])

\* DeliverProjectHandler.post from the return of DDSProject.new to the wait in
\* DDSProject.put
post_after_new(r) ==
    /\ r \in RequestIds
    /\ requests[r].pc \in {"new_raised", "new_returned"}
    /\ response' = NoCall
    /\ UNCHANGED <<staging_vars, fs, delivery_orders, delivery_history, delivery_calls,
                   dds_deliveries, delivery_sources>>
    /\ IF requests[r].pc = "new_raised"
       THEN Finish(r, requests[r].error) /\ UNCHANGED <<procs, dds_puts>>
       ELSE IF has_ongoing_puts(requests[r].dds_project_id)
       THEN \* the assert at the head of put, after the answer was sent
            /\ requests' = [requests EXCEPT ![r].pc = "done", ![r].answer = "ACCEPTED",
                                            ![r].error = "AssertionError"]
            /\ UNCHANGED <<procs, dds_puts>>
       ELSE \E run_ok \in SpawnOutcomes :
            IF ~run_ok
            THEN /\ requests' = [requests EXCEPT ![r].pc = "done", ![r].answer = "ACCEPTED",
                                                 ![r].error = "OSError"]
                 /\ UNCHANGED <<procs, dds_puts>>
            ELSE /\ procs' = procs @@ Run(ProjectPutPid(r))
                 /\ register_dds_put(requests[r].dds_project_id, ProjectPutPid(r),
                                     requests[r].source)
                 /\ requests' = [requests EXCEPT ![r].pc = "wait_put", ![r].answer = "ACCEPTED",
                                                 ![r].put = Len(dds_puts) + 1]

\* a put that blanks the source of the row of a failed upload
PutFinishedForgetsSource(row, status) ==
    IF status = "delivery_failed"
    THEN [row EXCEPT !.status = status, !.delivery_source = "none"]
    ELSE [row EXCEPT !.status = status]

\* the status DDSProject.put writes to its row when the upload is over
PutFinished(row, status) == [row EXCEPT !.status = status]

\* DDSProject.put from the return of wait_for_execution to its end
put_resume(r) ==
    /\ r \in RequestIds
    /\ requests[r].pc = "wait_put"
    /\ procs[ProjectPutPid(r)].state = "exited"
    /\ IF WaitRaises(ProjectPutPid(r))
       THEN /\ dds_puts' = [dds_puts EXCEPT ![requests[r].put] = PutFinished(@, "delivery_failed")]
            /\ requests' = IF requests[r].route = "put"
                           THEN [requests EXCEPT ![r].pc = "done", ![r].error = "RuntimeError"]
                           ELSE [requests EXCEPT ![r].pc = "put_raised"]
       ELSE /\ dds_puts' = [dds_puts EXCEPT ![requests[r].put] =
                                PutFinished(@, "delivery_successful")]
            /\ requests' = IF requests[r].route = "put"
                           THEN [requests EXCEPT ![r].pc = "done"]
                           ELSE [requests EXCEPT ![r].pc = "put_returned"]
    /\ response' = NoCall
    /\ UNCHANGED <<staging_vars, fs, procs, delivery_orders, delivery_history, delivery_calls,
                   dds_deliveries, delivery_sources>>

\* DatabaseBasedDDSRepository.set_to_completed on the dds_deliveries row
set_to_completed(dds_project_id) ==
    dds_deliveries' = [dds_deliveries EXCEPT ![dds_project_id].status = "delivery_successful"]

\* DDSProject.complete, as the last statement of DeliverProjectHandler.post
complete(r) ==
    IF has_ongoing_puts(requests[r].dds_project_id)
    THEN Finish(r, "AssertionError") /\ UNCHANGED dds_deliveries
    ELSE Finish(r, "none") /\ set_to_completed(requests[r].dds_project_id)

\* DeliverProjectHandler.post from the return of DDSProject.put to the wait in
\* DDSProject.release, or to its end
post_after_put(r) ==
    /\ r \in RequestIds
    /\ requests[r].pc \in {"put_raised", "put_returned"}
    /\ response' = NoCall
    /\ UNCHANGED <<staging_vars, fs, delivery_orders, delivery_history, delivery_calls,
                   dds_puts, delivery_sources>>
    /\ IF requests[r].pc = "put_raised"
       THEN Finish(r, "RuntimeError") /\ UNCHANGED <<procs, dds_deliveries>>
       ELSE IF ~requests[r].release
       THEN complete(r) /\ UNCHANGED procs
       ELSE IF has_ongoing_puts(requests[r].dds_project_id)
       THEN Finish(r, "AssertionError") /\ UNCHANGED <<procs, dds_deliveries>>
       ELSE \E run_ok \in SpawnOutcomes :
            IF ~run_ok
            THEN Finish(r, "OSError") /\ UNCHANGED <<procs, dds_deliveries>>
            ELSE /\ procs' = procs @@ Run(ProjectReleasePid(r))
                 /\ requests' = [requests EXCEPT ![r].pc = "wait_release"]
                 /\ UNCHANGED dds_deliveries

\* DDSProject.release from the return of wait_for_execution to its end
project_release_resume(r) ==
    /\ r \in RequestIds
    /\ requests[r].pc = "wait_release"
    /\ procs[ProjectReleasePid(r)].state = "exited"
    /\ requests' = IF requests[r].route = "release"
                   THEN [requests EXCEPT ![r].pc = "done",
                                         ![r].error = IF WaitRaises(ProjectReleasePid(r))
                                                      THEN "RuntimeError" ELSE "none"]
                   ELSE [requests EXCEPT ![r].pc = IF WaitRaises(ProjectReleasePid(r))
                                                   THEN "release_raised"
                                                   ELSE "release_returned"]
    /\ response' = NoCall
    /\ UNCHANGED <<staging_vars, fs, procs, delivery_orders, delivery_history, delivery_calls,
                   dds_deliveries, dds_puts, delivery_sources>>

\* DeliverProjectHandler.post from the return of DDSProject.release to its end
post_after_release(r) ==
    /\ r \in RequestIds
    /\ requests[r].pc \in {"release_raised", "release_returned"}
    /\ IF requests[r].pc = "release_raised"
       THEN Finish(r, "RuntimeError") /\ UNCHANGED dds_deliveries
       ELSE complete(r)
    /\ response' = NoCall
    /\ UNCHANGED <<staging_vars, fs, procs, delivery_orders, delivery_history, delivery_calls,
                   dds_puts, delivery_sources>>

\* DeliveryStatusHandler.get for a DDS project id: the status a client polls
PolledStatus(dds_project_id) == dds_deliveries[dds_project_id].status

\* the staging route for a whole project (StageGeneralDirectoryHandler.post and
\* deliver_arbitrary_directory_project of the delivery service): the same
\* guard, then the source is recorded and a staging order is created
deliver_arbitrary_directory_project(project_name, source, force_delivery) ==
    LET r == Len(requests) + 1
        request(answer) == [route |-> "stage_project",
                            project_name |-> project_name, source |-> source,
                            force_delivery |-> force_delivery, release |-> FALSE,
                            pc |-> "done", answer |-> answer, error |-> "none",
                            dds_project_id |-> "none", put |-> 0]
    IN  /\ UNCHANGED <<fs, procs, delivery_orders, delivery_history, delivery_calls,
                       dds_deliveries, dds_puts>>
        /\ IF Rejects(project_name, source, force_delivery)
           THEN /\ requests' = Append(requests, request("FORBIDDEN"))
                /\ response' = Call("stage_project", r, "FORBIDDEN")
                /\ UNCHANGED <<staging_vars, delivery_sources>>
           ELSE /\ requests' = Append(requests, request("ACCEPTED"))
                /\ delivery_sources' = delivery_sources \cup {<<project_name, source>>}
                /\ staging_orders' = Append(staging_orders,
                                            [status |-> "pending", pid |-> None, size |-> None,
                                             staging_target |->
                                                 StagingTarget(Len(staging_orders) + 1)])
                /\ copy_dir' = Append(copy_dir, "idle")
                /\ response' = Call("stage_project", r, "ACCEPTED")

\* a call of a method of DDSProject on a registered project, outside a request
DirectCall(route, dds_project_id, source, pc, error) ==
    requests' = Append(requests, [route |-> route,
                                  project_name |-> dds_deliveries[dds_project_id].ngi_project_name,
                                  source |-> source, force_delivery |-> FALSE,
                                  release |-> FALSE, pc |-> pc, answer |-> "none",
                                  error |-> error, dds_project_id |-> dds_project_id,
                                  put |-> IF pc = "wait_put" THEN Len(dds_puts) + 1 ELSE 0])

\* DDSProject.put up to its wait
DDSProject_put(dds_project_id, source) ==
    LET r == Len(requests) + 1
    IN  /\ dds_project_id \in DOMAIN dds_deliveries
        /\ response' = Call("put", r, "none")
        /\ UNCHANGED <<staging_vars, fs, delivery_orders, delivery_history, delivery_calls,
                       dds_deliveries, delivery_sources>>
        /\ IF has_ongoing_puts(dds_project_id)
           THEN DirectCall("put", dds_project_id, source, "done", "AssertionError")
                /\ UNCHANGED <<procs, dds_puts>>
           ELSE \E run_ok \in SpawnOutcomes :
                IF ~run_ok
                THEN DirectCall("put", dds_project_id, source, "done", "OSError")
                     /\ UNCHANGED <<procs, dds_puts>>
                ELSE /\ DirectCall("put", dds_project_id, source, "wait_put", "none")
                     /\ procs' = procs @@ Run(ProjectPutPid(r))
                     /\ register_dds_put(dds_project_id, ProjectPutPid(r), source)

\* DDSProject.release up to its wait
DDSProject_release(dds_project_id) ==
    LET r == Len(requests) + 1
    IN  /\ dds_project_id \in DOMAIN dds_deliveries
        /\ response' = Call("release", r, "none")
        /\ UNCHANGED <<staging_vars, fs, delivery_orders, delivery_history, delivery_calls,
                       dds_deliveries, dds_puts, delivery_sources>>
        /\ IF has_ongoing_puts(dds_project_id)
           THEN DirectCall("release", dds_project_id, "none", "done", "AssertionError")
                /\ UNCHANGED procs
           ELSE \E run_ok \in SpawnOutcomes :
                IF ~run_ok
                THEN DirectCall("release", dds_project_id, "none", "done", "OSError")
                     /\ UNCHANGED procs
                ELSE /\ DirectCall("release", dds_project_id, "none", "wait_release", "none")
                     /\ procs' = procs @@ Run(ProjectReleasePid(r))

\* DDSProject.complete
DDSProject_complete(dds_project_id) ==
    LET r == Len(requests) + 1
    IN  /\ dds_project_id \in DOMAIN dds_deliveries
        /\ response' = Call("complete", r, "none")
        /\ UNCHANGED <<staging_vars, fs, procs, delivery_orders, delivery_history,
                       delivery_calls, dds_puts, delivery_sources>>
        /\ IF has_ongoing_puts(dds_project_id)
           THEN DirectCall("complete", dds_project_id, "none", "done", "AssertionError")
                /\ UNCHANGED dds_deliveries
           ELSE DirectCall("complete", dds_project_id, "none", "done", "none")
                /\ set_to_completed(dds_project_id)

----------------------------------------------------------------------------
(* Organisation of files by a configuration *)

\* the paths the entries of a configuration name
OrganiseSources == {"source_file_1", "source_file_2"}

OrganiseDestinations == {"destination_file_1", "destination_file_2"}

\* the link_type option: absent, a known one, an unknown one
LinkTypes == {"none", "softlink", "not-a-valid-link-type"}

\* an entry of the parsed configuration: (source, destination, options)
OrganiseEntries ==
    [src : OrganiseSources, dst : OrganiseDestinations, required : BOOLEAN,
     link_type : LinkTypes]

\* the lists parse_yaml_config may return
OrganiseConfigs == UNION {[1..n -> OrganiseEntries] : n \in 0..MaxEntries}

\* OrganiseService._determine_organise_operation: the operation, or "none"
\* when RuntimeError is raised
determine_organise_operation(link_type) ==
    IF link_type = "none" THEN "copy"
    ELSE IF link_type \in {"softlink", "copy"} THEN link_type
    ELSE "none"

\* OrganiseService._configure_organisation_entry on the files that exist
configure_organisation_entry(entry, files) ==
    IF entry.src \notin files
    THEN IF entry.required
         THEN [kind |-> "raise", error |-> "FileNotFoundError"]
         ELSE [kind |-> "None", error |-> "none"]
    ELSE IF entry.dst \in files
    THEN [kind |-> "raise", error |-> "PermissionError"]
    ELSE IF determine_organise_operation(entry.link_type) = "none"
    THEN [kind |-> "raise", error |-> "RuntimeError"]
    ELSE [kind |-> determine_organise_operation(entry.link_type), error |-> "none",
          src |-> entry.src, dst |-> entry.dst]

\* FileSystemService.symlink and copy: symlink_to raises FileExistsError on a
\* path that exists, copyfile writes over it
OperationRaises(operation, files) == operation.kind = "softlink" /\ operation.dst \in files

RECURSIVE RunOperations(_, _, _)
\* the for loop of organise_with_config from operation i on; an exception of
\* an operation is wrapped in RuntimeError
RunOperations(operations, i, files) ==
    IF i > Len(operations) THEN [answer |-> "returned", fs |-> files]
    ELSE IF OperationRaises(operations[i], files) THEN [answer |-> "RuntimeError", fs |-> files]
    ELSE RunOperations(operations, i + 1, files \cup {operations[i].dst})

RECURSIVE organise_entry_by_entry(_, _)
\* an organisation that configures an entry and performs it before it looks
\* at the next one
organise_entry_by_entry(config, files) ==
    IF config = <<>> THEN [answer |-> "returned", fs |-> files]
    ELSE LET operation == configure_organisation_entry(Head(config), files)
         IN  IF operation.kind = "raise" THEN [answer |-> operation.error, fs |-> files]
             ELSE IF operation.kind = "None" THEN organise_entry_by_entry(Tail(config), files)
             ELSE IF OperationRaises(operation, files)
             THEN [answer |-> "RuntimeError", fs |-> files]
             ELSE organise_entry_by_entry(Tail(config), files \cup {operation.dst})

\* OrganiseService.organise_with_config after parse_yaml_config: every entry
\* is configured first, then the operations are performed
organise_with_config(config, files) ==
    LET configured == [i \in DOMAIN config |-> configure_organisation_entry(config[i], files)]
        raising == {i \in DOMAIN config : configured[i].kind = "raise"}
        IsOperation(c) == c.kind # "None"
    IN  IF raising # {}
        THEN [answer |-> configured[CHOOSE i \in raising : \A j \in raising : i <= j].error,
              fs |-> files]
        ELSE RunOperations(SelectSeq(configured, IsOperation), 1, files)

\* a call of organise_with_config with the configuration of the request
OrganiseCall(r) ==
    /\ r \in RequestIds
    /\ requests[r].pc = "called"
    /\ LET result == organise_with_config(requests[r].config, fs)
       IN  /\ fs' = result.fs
           /\ requests' = [requests EXCEPT ![r].pc = "done", ![r].answer = result.answer]
           /\ response' = Call("organise_with_config", r, result.answer)
    /\ UNCHANGED <<staging_vars, procs, delivery_orders, delivery_history, delivery_calls,
                   dds_deliveries, dds_puts, delivery_sources>>

----------------------------------------------------------------------------

Init ==
    /\ staging_orders = <<>>
    /\ copy_dir = <<>>
    /\ fs = {}
    /\ procs = <<>>
    /\ delivery_orders = <<>>
    /\ delivery_history = <<>>
    /\ delivery_calls = <<>>
    /\ dds_deliveries = ("snpseq00001" :> [ngi_project_name |-> "AB-1234",
                                           status |-> "delivery_successful"])
    /\ dds_puts = <<>>
    /\ requests = <<>>
    /\ delivery_sources = {}
    /\ response = NoCall

\* the staging service on its own, called in every state
NextStaging ==
    \/ Len(staging_orders) < MaxStagingOrders /\ create_new_stage_order
    \/ \E o \in StagingIds : stage_order(o)
    \/ \E o \in StagingIds : copy_dir_resume(o)
    \/ \E o \in 1..(Len(staging_orders) + 1) : kill_process_of_staging_order(o)
    \/ \E pid \in DOMAIN procs : ProcessExit(pid)

SpecStaging == Init /\ [][NextStaging]_vars

\* staging followed by the two deliver-by-staging-id routes
Next ==
    \/ Len(staging_orders) + Len(delivery_orders) < MaxOrders /\ create_new_stage_order
    \/ \E o \in StagingIds : staging_orders[o].status = "pending" /\ stage_order(o)
    \/ \E o \in StagingIds : copy_dir_resume(o)
    \/ \E pid \in DOMAIN procs : ProcessExit(pid)
    \/ \E s \in 1..(Len(staging_orders) + 1), project \in DdsProjects : deliver(s, project)
    \/ \E d \in DeliveryIds : run_delivery_resume(d)
    \/ \E d \in DeliveryIds : release_resume(d)
    \/ \E s \in 1..(Len(staging_orders) + 1) : deliver_by_staging_id(s, "snpseq00001")
    \/ \E d \in DeliveryIds : run_dds_put_resume(d)
    \/ \E d \in DeliveryIds : deliver_by_staging_id_resume(d)

Spec == Init /\ [][Next]_vars

\* staging and delivery with a service that may die right after it has
\* spawned a process; nothing runs after the crash
NextCrash ==
    \/ response.op # "crash" /\ Next
    \/ /\ response.op # "crash"
       /\ \E o \in StagingIds : crash_in_stage_order(o)
    \/ /\ response.op # "crash"
       /\ \E s \in StagingIds : crash_in_run_delivery(s, "snpseq00001", "DDSProject.deliver")
    \/ /\ response.op # "crash"
       /\ \E s \in StagingIds :
             crash_in_run_delivery(s, "snpseq00001", "DDSService.deliver_by_staging_id")

SpecCrash == Init /\ [][NextCrash]_vars

\* the deliver-project route and the staging route for whole projects
NextProject ==
    \/ /\ Len(requests) < MaxRequests
       /\ \E project_name \in ProjectNames, source \in SourceNames,
             force_delivery \in BOOLEAN, release \in BOOLEAN :
             DeliverProjectPost(project_name, source, force_delivery, release)
    \/ \E r \in RequestIds : new_resume(r)
    \/ \E r \in RequestIds : post_after_new(r)
    \/ \E r \in RequestIds : put_resume(r)
    \/ \E r \in RequestIds : post_after_put(r)
    \/ \E r \in RequestIds : project_release_resume(r)
    \/ \E r \in RequestIds : post_after_release(r)
    \/ /\ Len(requests) < MaxRequests
       /\ \E project_name \in ProjectNames, source \in SourceNames, force_delivery \in BOOLEAN :
             deliver_arbitrary_directory_project(project_name, source, force_delivery)
    \/ \E pid \in DOMAIN procs : ProcessExit(pid)

SpecProject == Init /\ [][NextProject]_vars

\* a forced deliver-project request together with calls of put, release and
\* complete on the projects that are registered
NextDDSProject ==
    \/ /\ Len(requests) < MaxRequests
       /\ \E release \in BOOLEAN : DeliverProjectPost("AB-5678", "runfolderX", TRUE, release)
    \/ \E r \in RequestIds : new_resume(r)
    \/ \E r \in RequestIds : post_after_new(r)
    \/ \E r \in RequestIds : put_resume(r)
    \/ \E r \in RequestIds : post_after_put(r)
    \/ \E r \in RequestIds : project_release_resume(r)
    \/ \E r \in RequestIds : post_after_release(r)
    \/ /\ Len(requests) < MaxCalls
       /\ \E dds_project_id \in DOMAIN dds_deliveries, source \in SourceNames :
             DDSProject_put(dds_project_id, source)
    \/ /\ Len(requests) < MaxCalls
       /\ \E dds_project_id \in DOMAIN dds_deliveries : DDSProject_release(dds_project_id)
    \/ /\ Len(requests) < MaxCalls
       /\ \E dds_project_id \in DOMAIN dds_deliveries : DDSProject_complete(dds_project_id)
    \/ \E pid \in DOMAIN procs : ProcessExit(pid)

SpecDDSProject == Init /\ [][NextDDSProject]_vars

\* organise_with_config called once, on any configuration and any set of
\* files that exist
InitOrganise ==
    /\ staging_orders = <<>>
    /\ copy_dir = <<>>
    /\ fs \in SUBSET (OrganiseSources \cup OrganiseDestinations)
    /\ procs = <<>>
    /\ delivery_orders = <<>>
    /\ delivery_history = <<>>
    /\ delivery_calls = <<>>
    /\ dds_deliveries = <<>>
    /\ dds_puts = <<>>
    /\ \E config \in OrganiseConfigs :
          requests = <<[route |-> "organise_with_config", config |-> config,
                        files |-> fs, pc |-> "called", answer |-> "none"]>>
    /\ delivery_sources = {}
    /\ response = NoCall

NextOrganise == \E r \in RequestIds : OrganiseCall(r)

SpecOrganise == InitOrganise /\ [][NextOrganise]_vars

----------------------------------------------------------------------------
(* Properties of the staging service (checked under SpecStaging) *)

Terminal == {"staging_successful", "staging_failed"}

\* C1: stage_order on an order whose status is not pending raises
\* InvalidStatusException and starts no copy process, so a second stage_order
\* never starts a second copy.
C1_RejectedStageOrderSpawnsNothing ==
    [][\A o \in StagingIds :
          (/\ response'.op = "stage_order"
           /\ response'.id = o
           /\ staging_orders[o].status # "pending")
          => (/\ response'.val = "InvalidStatusException"
              /\ procs' = procs
              /\ copy_dir' = copy_dir)]_vars

\* a second stage_order was refused while the copy of the first was running
C1_Witness ==
    \E o \in StagingIds :
        /\ response = Call("stage_order", o, "InvalidStatusException")
        /\ copy_dir[o] = "wait_for_execution"
        /\ procs[RsyncPid(o)].state = "running"

\* C2: once the status of an order is staging_successful or staging_failed, no
\* stage_order, kill or completion of the copy changes it again.
C2_TerminalStatusIsFinal ==
    [][\A o \in StagingIds :
          staging_orders[o].status \in Terminal
          => staging_orders'[o].status = staging_orders[o].status]_vars

\* C3: when the copy process has exited and _copy_dir has run to its end, the
\* order is staging_successful with a size if the exit status was 0, and
\* staging_failed without a size otherwise.
C3_ExitStatusDecidesOutcome ==
    [][\A o \in StagingIds :
          (copy_dir[o] = "wait_for_execution" /\ copy_dir'[o] = "done")
          => IF procs[RsyncPid(o)].status_code = Some(0)
             THEN /\ staging_orders'[o].status = "staging_successful"
                  /\ staging_orders'[o].size # None
             ELSE /\ staging_orders'[o].status = "staging_failed"
                  /\ staging_orders'[o].size = None]_vars

\* C4: kill_process_of_staging_order on an order in staging_in_progress whose
\* process takes the signal returns True and leaves the status staging_failed.
C4_KillOfRunningCopy ==
    [][\A o \in StagingIds :
          (/\ response'.op = "kill_process_of_staging_order"
           /\ response'.id = o
           /\ staging_orders[o].status = "staging_in_progress"
           /\ \/ procs[staging_orders[o].pid].state = "running"
              \/ procs'[staging_orders[o].pid].signalled)
          => (/\ response'.val = "True"
              /\ staging_orders'[o].status = "staging_failed")]_vars

\* the copy of an order was running and the kill returned True
C4_Witness ==
    \E o \in StagingIds :
        /\ response = Call("kill_process_of_staging_order", o, "True")
        /\ staging_orders[o].status = "staging_failed"
        /\ procs[RsyncPid(o)].state = "running"
        /\ procs[RsyncPid(o)].signalled

\* C5: kill_process_of_staging_order returns False and changes no order when
\* the id is unknown, when the order is not staging_in_progress (no signal is
\* sent in these two cases) and when os.kill fails.
C5_KillFailsClosed ==
    [][response'.op = "kill_process_of_staging_order"
       => LET o == response'.id
              eligible == o \in StagingIds /\ staging_orders[o].status = "staging_in_progress"
          IN  /\ ~eligible => (response'.val = "False" /\ procs' = procs)
              /\ response'.val = "False" => staging_orders' = staging_orders
              /\ response'.val = "True" => (eligible /\ procs'[staging_orders[o].pid].signalled)]_vars

\* os.kill failed for an order in progress: False, and the order as it was
C5_Witness ==
    \E o \in StagingIds :
        /\ response = Call("kill_process_of_staging_order", o, "False")
        /\ staging_orders[o].status = "staging_in_progress"
        /\ ~procs[RsyncPid(o)].signalled

----------------------------------------------------------------------------
(* Properties of delivery by staging id (checked under Spec) *)

DeliverOps == {"deliver", "deliver_by_staging_id"}

\* the delivery order d uploads: it was created without the skip flag
RealUpload(d) == ~delivery_calls[d].skip

StagedDir(d) == StagingTarget(delivery_orders[d].staging_order_id)

\* C6: delivering by staging id when the staging order does not exist or is
\* not staging_successful raises InvalidStatusException, creates no
\* DeliveryOrder row and starts no upload process.
C6_UndeliverableIsRejected ==
    [][(/\ response'.op \in DeliverOps
        /\ \/ response'.id \notin StagingIds
           \/ staging_orders[response'.id].status # "staging_successful")
       => (/\ response'.val = "InvalidStatusException"
           /\ delivery_orders' = delivery_orders
           /\ procs' = procs)]_vars

\* a delivery of an existing order whose staging failed was refused
C6_Witness ==
    /\ response.op \in DeliverOps
    /\ response.val = "InvalidStatusException"
    /\ response.id \in StagingIds
    /\ staging_orders[response.id].status = "staging_failed"

\* C7: a delivery with the skip flag set has gone from pending directly to
\* delivery_skipped, has that status ever after, and no upload or release
\* process was ever started for it.
C7_SkippedDelivery ==
    \A d \in DeliveryIds :
        delivery_calls[d].skip
        => (/\ delivery_history[d] = <<"pending", "delivery_skipped">>
            /\ delivery_orders[d].delivery_status = "delivery_skipped"
            /\ delivery_orders[d].dds_pid = None
            /\ PutPid(d) \notin DOMAIN procs
            /\ ReleasePid(d) \notin DOMAIN procs)

\* a skipped delivery exists next to one that uploads
C7_Witness ==
    \E d, e \in DeliveryIds :
        /\ delivery_calls[d].skip
        /\ delivery_orders[d].delivery_status = "delivery_skipped"
        /\ PutPid(e) \in DOMAIN procs

\* C8: without the skip flag, the call that delivers by staging id returns the
\* order id without waiting for the upload: while the upload process of an
\* order is still running, the call that started it has already returned.
C8_ReturnsBeforeUploadExits ==
    \A d \in DeliveryIds :
        (/\ RealUpload(d)
         /\ delivery_orders[d].delivery_status = "delivery_in_progress"
         /\ procs[PutPid(d)].state = "running")
        => delivery_calls[d].result = "returned"

C10_FailedKeepsStagedDir ==
    \A d \in DeliveryIds :
        (/\ delivery_orders[d].delivery_status = "delivery_failed"
         /\ \A e \in DeliveryIds \ {d} :
                delivery_orders[e].staging_order_id # delivery_orders[d].staging_order_id)
        => StagedDir(d) \in fs

\* C11: the staged directory is never deleted before delivery_successful has
\* been committed: in the step in which the routine of a delivery order that
\* uploads removes the directory, the persisted status of that order is
\* already delivery_successful.
C11_CommitPrecedesDeletion ==
    [][\A d \in DeliveryIds :
          (/\ RealUpload(d)
           /\ delivery_calls'[d].pc # delivery_calls[d].pc
           /\ StagedDir(d) \in fs
           /\ StagedDir(d) \notin fs')
          => delivery_orders[d].delivery_status = "delivery_successful"]_vars

\* C12: the status of a delivery order only moves pending -> in_progress ->
\* successful | failed, or pending -> skipped; failed and successful are
\* never reached directly from pending and nothing follows a final status.
C12_DeliveryStatusTransitions ==
    \A d \in DeliveryIds :
        delivery_history[d] \in
            { <<"pending">>,
              <<"pending", "delivery_in_progress">>,
              <<"pending", "delivery_in_progress", "delivery_successful">>,
              <<"pending", "delivery_in_progress", "delivery_failed">>,
              <<"pending", "delivery_skipped">> }

----------------------------------------------------------------------------
(* Properties of the delivery of whole projects (checked under SpecProject) *)

\* the guard has a record of the pair: an upload row of the deliver-project
\* route, or a source of the staging route
Reported(project_name, source) ==
    \/ \E i \in PutIds :
          /\ dds_puts[i].delivery_source = source
          /\ dds_deliveries[dds_puts[i].dds_project_id].ngi_project_name = project_name
    \/ <<project_name, source>> \in delivery_sources

\* C13: a deliver-project request for a pair the duplicate guard reports,
\* made without force, is answered FORBIDDEN and nothing is created: no create
\* command (so no remote project), no process, no DDSDelivery, DDSPut or order
\* row.  With force the request is not rejected and goes on to create the
\* project; the upload it registers is a new DDSPut row of a new DDSDelivery.
C13_GuardRejectsBeforeAnythingIsCreated ==
    [][/\ response'.op = "deliver_project"
          => LET r == response'.id
                 reported == Reported(requests'[r].project_name, requests'[r].source)
             IN  /\ (reported /\ ~requests'[r].force_delivery)
                      => /\ response'.val = "FORBIDDEN"
                         /\ requests'[r].pc = "done"
                         /\ procs' = procs
                         /\ dds_deliveries' = dds_deliveries
                         /\ dds_puts' = dds_puts
                         /\ delivery_sources' = delivery_sources
                         /\ staging_orders' = staging_orders
                         /\ delivery_orders' = delivery_orders
                 /\ (reported /\ requests'[r].force_delivery)
                      => /\ response'.val # "FORBIDDEN"
                         /\ response'.val = "suspended" => CreatePid(r) \in DOMAIN procs'
       /\ \A r \in RequestIds :
             (requests[r].put = 0 /\ requests'[r].put # 0)
             => /\ requests'[r].put = Len(dds_puts) + 1
                /\ dds_puts'[requests'[r].put].delivery_source = requests[r].source
                /\ requests[r].dds_project_id \in DOMAIN dds_deliveries]_vars

\* the second request for a pair was rejected: the first one has its upload
\* row, the second one no create command
C13_Witness ==
    /\ response = Call("deliver_project", 2, "FORBIDDEN")
    /\ Len(requests) = 2
    /\ requests[1].put = 1
    /\ requests[2].project_name = requests[1].project_name
    /\ requests[2].source = requests[1].source
    /\ CreatePid(2) \notin DOMAIN procs
    /\ Len(dds_puts) = 1

\* a request for the pair has registered its upload
UploadRegistered(project_name, source) ==
    \E r \in RequestIds :
        /\ requests[r].project_name = project_name
        /\ requests[r].source = source
        /\ requests[r].put # 0

\* C14: was_delivered_before(project, source) is false while no upload has
\* been registered for that project name and that source, and true from the
\* registration on, whether the upload is in progress, successful or failed.
C14_WasDeliveredBefore ==
    \A project_name \in ProjectNames, source \in SourceNames :
        was_delivered_before(project_name, source) <=> UploadRegistered(project_name, source)

\* the only upload of a pair has failed and the guard reports the pair, while
\* it does not report the same source for the other project
C14_Witness ==
    \E project_name \in ProjectNames, source \in SourceNames :
        /\ was_delivered_before(project_name, source)
        /\ Len(dds_puts) = 1
        /\ dds_puts[1].status = "delivery_failed"
        /\ \E other \in ProjectNames \ {project_name} : ~was_delivered_before(other, source)

\* C15: the duplicate guard is monotonic: once was_delivered_before reports a
\* pair it reports it after every later step, since no step deletes an upload
\* row or rewrites its project or source.
C15_GuardIsMonotonic ==
    [][\A project_name \in ProjectNames, source \in SourceNames :
          was_delivered_before(project_name, source)
          => was_delivered_before(project_name, source)']_vars

\* a reported pair whose request has run to its end, upload failed
C15_Witness ==
    \E r \in RequestIds :
        /\ requests[r].pc = "done"
        /\ requests[r].put # 0
        /\ dds_puts[requests[r].put].status = "delivery_failed"
        /\ was_delivered_before(requests[r].project_name, requests[r].source)

\* C16: the duplicate guard holds across the two routes: once a pair has
\* been delivered through the deliver-project route (its upload is registered)
\* or through the staging route (its source is recorded), a later request for
\* the pair without force is answered FORBIDDEN on either route, and a request
\* with force is not.
C16_GuardAcrossRoutes ==
    [][response'.op \in {"deliver_project", "stage_project"}
       => LET r == response'.id
          IN  Reported(requests'[r].project_name, requests'[r].source)
              => (response'.val = "FORBIDDEN" <=> ~requests'[r].force_delivery)]_vars

\* a deliver-project request was rejected for a pair the staging route
\* delivered
C16_Witness ==
    /\ Len(requests) = 2
    /\ requests[1].route = "stage_project" /\ requests[1].answer = "ACCEPTED"
    /\ requests[2].route = "deliver_project" /\ requests[2].answer = "FORBIDDEN"
    /\ requests[2].project_name = requests[1].project_name
    /\ requests[2].source = requests[1].source
    /\ Len(dds_puts) = 0

\* C17: delivering by staging id consults the duplicate guard before it
\* creates the DeliveryOrder, so a staged source that already has an upload to
\* a project gets no second DeliveryOrder for that project (checked under Spec).
C17_NoSecondDeliveryOfStagedSource ==
    \A d, e \in DeliveryIds :
        (/\ d < e
         /\ delivery_orders[d].staging_order_id = delivery_orders[e].staging_order_id
         /\ delivery_orders[d].delivery_project = delivery_orders[e].delivery_project)
        => ~(RealUpload(d) /\ PutPid(d) \in DOMAIN procs)

\* C18: remote-project creation tells its failures apart: a non-zero exit of
\* the create command raises RuntimeError; a zero exit whose output has no
\* 'Project created with id: snpseq<digits>' line raises
\* CannotParseDDSOutputException; otherwise the id of the first such line is
\* the id of the new project.
C18_CreateProjectOutcomes ==
    [][\A r \in RequestIds :
          (requests[r].pc = "wait_create" /\ requests'[r].pc # "wait_create")
          => LET create == procs[CreatePid(r)]
                 out == create.stdout
             IN  IF create.status_code # Some(0)
                 THEN requests'[r].pc = "new_raised" /\ requests'[r].error = "RuntimeError"
                 ELSE IF \A i \in DOMAIN out : ~PatternMatches(out[i])
                 THEN /\ requests'[r].pc = "new_raised"
                      /\ requests'[r].error = "CannotParseDDSOutputException"
                 ELSE /\ requests'[r].pc = "new_returned"
                      /\ \E i \in DOMAIN out :
                            /\ PatternMatches(out[i])
                            /\ \A j \in 1..(i - 1) : ~PatternMatches(out[j])
                            /\ requests'[r].dds_project_id = out[i].id]_vars

\* one create command exited 0 with output that has no id, another printed
\* two ids after other text and the first was taken
C18_Witness ==
    /\ Len(requests) = 2
    /\ requests[1].error = "CannotParseDDSOutputException"
    /\ procs[CreatePid(1)].status_code = Some(0)
    /\ requests[2].dds_project_id = NewProjectIds[2]
    /\ Len(procs[CreatePid(2)].stdout) = 3

\* C19: every failure after a DeliveryOrder was created shows in its status:
\* once the upload routine has run to its end (the upload exited, or spawning
\* or releasing raised) the status is delivery_successful or delivery_failed,
\* never pending or delivery_in_progress, and it is delivery_failed whenever
\* the upload was not started, exited non-zero, or the release exited non-zero
\* (checked under Spec).
C19_FailuresShowInStatus ==
    \A d \in DeliveryIds :
        (RealUpload(d) /\ delivery_calls[d].pc = "done")
        => LET status == delivery_orders[d].delivery_status
               nonzero(pid) == pid \in DOMAIN procs /\ procs[pid].status_code # Some(0)
           IN  /\ status \in {"delivery_successful", "delivery_failed"}
               /\ (PutPid(d) \notin DOMAIN procs \/ nonzero(PutPid(d)) \/ nonzero(ReleasePid(d)))
                    => status = "delivery_failed"

\* one delivery failed because its upload exited non-zero, another because
\* its upload could not be started
C19_Witness ==
    \E d, e \in DeliveryIds :
        /\ RealUpload(d) /\ delivery_calls[d].pc = "done"
        /\ PutPid(d) \in DOMAIN procs
        /\ procs[PutPid(d)].status_code = Some(1)
        /\ delivery_orders[d].delivery_status = "delivery_failed"
        /\ RealUpload(e) /\ delivery_calls[e].pc = "done"
        /\ PutPid(e) \notin DOMAIN procs
        /\ delivery_orders[e].delivery_status = "delivery_failed"

\* C20: after a deliver-project request was accepted and has run to its end,
\* the status a client polls for the created project is delivery_successful
\* when the upload (and the requested release) succeeded and delivery_failed
\* when one of them failed; it is not left at delivery_in_progress (checked
\* under SpecProject).
C20_PolledStatusIsFinal ==
    \A r \in RequestIds :
        (/\ requests[r].route = "deliver_project"
         /\ requests[r].answer = "ACCEPTED"
         /\ requests[r].pc = "done")
        => PolledStatus(requests[r].dds_project_id) =
               IF requests[r].error = "none" THEN "delivery_successful" ELSE "delivery_failed"

----------------------------------------------------------------------------
(* Properties of DDSProject under direct calls (checked under SpecDDSProject) *)

\* the upload rows of a project that are delivery_in_progress
UploadsInFlight(dds_project_id) ==
    {i \in PutIds : /\ dds_puts[i].dds_project_id = dds_project_id
                    /\ dds_puts[i].status = "delivery_in_progress"}

\* C21: at most one upload row of a DDS project id is delivery_in_progress in
\* any state, and a step spawns no upload process and registers no upload row
\* for a project one of whose uploads is in progress.
C21_OneUploadInFlight ==
    /\ [](\A p \in DOMAIN dds_deliveries : Cardinality(UploadsInFlight(p)) <= 1)
    /\ [][\A r \in 1..Len(requests') :
            (\/ ProjectPutPid(r) \in DOMAIN procs' \ DOMAIN procs
             \/ (requests'[r].put # 0 /\ requests'[r].put \notin PutIds))
            => UploadsInFlight(requests'[r].dds_project_id) = {}]_vars

\* put was called on a project with an upload in progress and refused; a
\* project has had two uploads, one after the other
C21_Witness ==
    /\ \E r \in RequestIds :
          /\ requests[r].route \in {"put", "deliver_project"}
          /\ requests[r].error = "AssertionError"
          /\ requests[r].put = 0
          /\ UploadsInFlight(requests[r].dds_project_id) # {}
    /\ \E i, j \in PutIds : i # j /\ dds_puts[i].dds_project_id = dds_puts[j].dds_project_id

\* C30: release spawns no command for a project, and no step changes the
\* status of a project's DDSDelivery row, while an upload of the project is
\* delivery_in_progress: a call of release or complete made then ends with the
\* assertion error and nothing else (checked under SpecDDSProject).
C30_NoReleaseOrCompleteDuringUpload ==
    [][/\ \A r \in 1..Len(requests') :
            ProjectReleasePid(r) \in DOMAIN procs' \ DOMAIN procs
            => UploadsInFlight(requests'[r].dds_project_id) = {}
       /\ \A p \in DOMAIN dds_deliveries :
            dds_deliveries'[p] # dds_deliveries[p] => UploadsInFlight(p) = {}
       /\ (response'.op \in {"release", "complete"}
           /\ UploadsInFlight(requests'[response'.id].dds_project_id) # {})
          => /\ requests'[response'.id].error = "AssertionError"
             /\ procs' = procs
             /\ dds_deliveries' = dds_deliveries
             /\ dds_puts' = dds_puts]_vars

\* during one upload of a project a release and a complete of that project
\* were both refused
C30_Witness ==
    \E r1, r2 \in RequestIds :
        /\ requests[r1].route = "release" /\ requests[r1].error = "AssertionError"
        /\ requests[r2].route = "complete" /\ requests[r2].error = "AssertionError"
        /\ requests[r1].dds_project_id = requests[r2].dds_project_id
        /\ UploadsInFlight(requests[r1].dds_project_id) # {}
        /\ dds_deliveries[requests[r1].dds_project_id].status = "delivery_in_progress"

----------------------------------------------------------------------------
(* Further properties of the staging service (checked under SpecStaging) *)

\* C22: create_new_stage_order adds one StagingOrder with status pending whose
\* staging_target is made of the staging root and the new id; no two orders
\* share a staging_target; the call spawns no process, touches no directory
\* and leaves the other orders as they were.
C22_NewStageOrder ==
    /\ [](\A o1, o2 \in StagingIds :
            staging_orders[o1].staging_target = staging_orders[o2].staging_target => o1 = o2)
    /\ [][response'.op = "create_new_stage_order"
          => /\ response'.id = Len(staging_orders) + 1
             /\ Len(staging_orders') = Len(staging_orders) + 1
             /\ staging_orders'[response'.id].status = "pending"
             /\ staging_orders'[response'.id].pid = None
             /\ staging_orders'[response'.id].staging_target = <<"staging_dir", response'.id>>
             /\ \A o \in StagingIds : staging_orders'[o] = staging_orders[o]
             /\ procs' = procs
             /\ fs' = fs]_vars

\* a second order was created while the copy of the first was running
C22_Witness ==
    /\ response.op = "create_new_stage_order"
    /\ response.id = 2
    /\ staging_orders[1].status = "staging_in_progress"
    /\ RsyncPid(1) \in DOMAIN procs
    /\ StagingTarget(1) \in fs
    /\ staging_orders[2].status = "pending"

----------------------------------------------------------------------------
(* Further properties of the delivery by staging id (checked under Spec) *)

\* C23: a DeliveryOrder row stands for one upload attempt: no step spawns an
\* upload process for a row that exists already or rewrites what such a row
\* delivers, and every deliver call that is accepted adds a row and leaves
\* the rows there were as they are.
C23_OneAttemptPerDeliveryOrder ==
    [][/\ \A d \in DeliveryIds :
            /\ d \in 1..Len(delivery_orders')
            /\ delivery_orders'[d].staging_order_id = delivery_orders[d].staging_order_id
            /\ delivery_orders'[d].delivery_project = delivery_orders[d].delivery_project
            /\ Len(delivery_history'[d]) >= Len(delivery_history[d])
            /\ PutPid(d) \in DOMAIN procs' => PutPid(d) \in DOMAIN procs
       /\ (response'.op \in DeliverOps
           /\ response'.val \notin {"InvalidStatusException", "AttributeError"})
          => /\ Len(delivery_orders') = Len(delivery_orders) + 1
             /\ \A d \in DeliveryIds : delivery_orders'[d] = delivery_orders[d]]_vars

\* a staging order was delivered to the same project a second time after the
\* first upload had failed: two rows, each with its own upload process
C23_Witness ==
    /\ Len(delivery_orders) = 2
    /\ delivery_orders[1].staging_order_id = delivery_orders[2].staging_order_id
    /\ delivery_orders[1].delivery_project = delivery_orders[2].delivery_project
    /\ delivery_orders[1].delivery_status = "delivery_failed"
    /\ PutPid(1) \in DOMAIN procs
    /\ PutPid(2) \in DOMAIN procs

\* C24: in the upload routine the release command is spawned only when the
\* upload process has exited with code 0 and release was requested; a delivery
\* without release, or whose upload failed, never has a release command; and a
\* delivery with release is delivery_successful only when its release command
\* has exited with code 0.
C24_ReleaseAfterUpload ==
    /\ [](\A d \in DeliveryIds :
            /\ ReleasePid(d) \in DOMAIN procs
               => /\ delivery_calls[d].release
                  /\ PutPid(d) \in DOMAIN procs
                  /\ procs[PutPid(d)].status_code = Some(0)
            /\ (/\ delivery_calls[d].release
                /\ RealUpload(d)
                /\ delivery_orders[d].delivery_status = "delivery_successful")
               => /\ ReleasePid(d) \in DOMAIN procs
                  /\ procs[ReleasePid(d)].status_code = Some(0))
    /\ [][\A d \in DeliveryIds :
            ReleasePid(d) \in DOMAIN procs' \ DOMAIN procs
            => /\ procs[PutPid(d)].state = "exited"
               /\ delivery_orders[d].delivery_status = "delivery_in_progress"]_vars

\* a delivery with release whose upload failed has no release command, and a
\* later one is successful after its release command has exited
C24_Witness ==
    \E d, e \in DeliveryIds :
        /\ delivery_calls[d].release /\ RealUpload(d)
        /\ delivery_orders[d].delivery_status = "delivery_failed"
        /\ PutPid(d) \in DOMAIN procs
        /\ ReleasePid(d) \notin DOMAIN procs
        /\ delivery_calls[e].release /\ RealUpload(e)
        /\ delivery_orders[e].delivery_status = "delivery_successful"
        /\ ReleasePid(e) \in DOMAIN procs

----------------------------------------------------------------------------
(* Frame and failure properties of the staging service (checked under SpecStaging) *)

\* C25: a stage_order call rejected with the invalid-state error leaves the
\* order as it was: status, pid and size are what they were before the call.
C25_RejectedStageOrderChangesNothing ==
    [][(response'.op = "stage_order" /\ response'.val = "InvalidStatusException")
       => staging_orders'[response'.id] = staging_orders[response'.id]]_vars

\* C26: whatever the order of a kill request and the end of the copy process,
\* an order whose kill returned true (its process was signalled) is
\* staging_failed once the waiting coroutine has resumed and finished.
C26_KilledOrderEndsFailed ==
    \A o \in StagingIds :
        (/\ RsyncPid(o) \in DOMAIN procs
         /\ procs[RsyncPid(o)].signalled
         /\ copy_dir[o] = "done")
        => staging_orders[o].status = "staging_failed"

----------------------------------------------------------------------------
(* Durability of the status writes (checked under SpecCrash) *)

\* C27: whenever a copy or upload process has been spawned for an order, the
\* persisted status of the order is no longer pending, at whatever point the
\* service stops.
C27_StatusWrittenBeforeSpawn ==
    /\ \A o \in StagingIds :
          RsyncPid(o) \in DOMAIN procs => staging_orders[o].status # "pending"
    /\ \A d \in DeliveryIds :
          PutPid(d) \in DOMAIN procs => delivery_orders[d].delivery_status # "pending"

\* C28: a failure of the copy itself (rsync cannot be run, or exits non-zero,
\* or its result cannot be handled) is reported through staging_failed alone:
\* stage_order returns and its coroutine ends without raising.  A failure of
\* the setup (the target directory cannot be made) is raised to the caller
\* of stage_order and leaves the order staging_failed too.
C28_CopyFailureIsNotRaised ==
    [][/\ (response'.op = "stage_order" /\ staging_orders[response'.id].status = "pending")
          => LET o == response'.id
             IN  IF <<"staging_dir", o>> \notin fs'
                 THEN /\ response'.val = "OSError"
                      /\ staging_orders'[o].status = "staging_failed"
                      /\ procs' = procs
                 ELSE IF RsyncPid(o) \notin DOMAIN procs'
                 THEN /\ response'.val = "returned"
                      /\ staging_orders'[o].status = "staging_failed"
                 ELSE /\ response'.val = "suspended"
                      /\ staging_orders'[o].status = "staging_in_progress"
       /\ \A o \in StagingIds :
            (copy_dir[o] = "wait_for_execution" /\ copy_dir'[o] # "wait_for_execution")
            => /\ copy_dir'[o] = "done"
               /\ procs[RsyncPid(o)].status_code # Some(0)
                  => staging_orders'[o].status = "staging_failed"]_vars

\* the copy of the first order has exited non-zero and its coroutine is over;
\* the staging of the second has just failed at makedirs
C28_Witness ==
    /\ Len(staging_orders) = 2
    /\ copy_dir[1] = "done"
    /\ RsyncPid(1) \in DOMAIN procs
    /\ procs[RsyncPid(1)].status_code = Some(1)
    /\ staging_orders[1].status = "staging_failed"
    /\ response = Call("stage_order", 2, "OSError")
    /\ staging_orders[2].status = "staging_failed"
    /\ RsyncPid(2) \notin DOMAIN procs

----------------------------------------------------------------------------
(* Frame properties of the delivery by staging id (checked under Spec) *)

\* C29: the delivery operations (a deliver call, the upload routine, the
\* release) leave every StagingOrder as it is, and no step removes a
\* StagingOrder or a DeliveryOrder or gives an order another staging_target.
C29_DeliveryKeepsStagingHistory ==
    [][/\ (\/ response'.op \in DeliverOps
           \/ delivery_orders' # delivery_orders
           \/ delivery_calls' # delivery_calls)
          => staging_orders' = staging_orders
       /\ Len(staging_orders') >= Len(staging_orders)
       /\ Len(delivery_orders') >= Len(delivery_orders)
       /\ \A o \in StagingIds :
            staging_orders'[o].staging_target = staging_orders[o].staging_target]_vars

\* a delivery with release has ended successfully and removed the staged
\* directory; the staging order still says staging_successful with its size
C29_Witness ==
    \E d \in DeliveryIds :
        /\ delivery_calls[d].pc = "done"
        /\ delivery_calls[d].release
        /\ delivery_orders[d].delivery_status = "delivery_successful"
        /\ StagedDir(d) \notin fs
        /\ staging_orders[delivery_orders[d].staging_order_id].status = "staging_successful"
        /\ staging_orders[delivery_orders[d].staging_order_id].size # None
        /\ staging_orders[delivery_orders[d].staging_order_id].pid # None

----------------------------------------------------------------------------
(* Properties of the waits and of the staging orders (checked under SpecStaging) *)

\* C31: waiting for an external process gives the caller a result with the
\* exit status, zero or not: the wait of a copy that has exited does not raise.
C31_WaitYieldsResultForEveryStatus ==
    \A o \in StagingIds :
        (/\ copy_dir[o] = "wait_for_execution"
         /\ procs[RsyncPid(o)].state = "exited")
        => ~WaitRaises(RsyncPid(o))

\* C32: at every suspension point an order that is staging_in_progress has
\* its pid recorded, and the pid is that of a process that was spawned: a
\* kill request on an in-progress order has a pid to signal.
C32_InProgressHasPid ==
    \A o \in StagingIds :
        staging_orders[o].status = "staging_in_progress"
        => /\ staging_orders[o].pid # None
           /\ staging_orders[o].pid \in DOMAIN procs

\* a kill request has signalled the process of an order while another order
\* is in progress
C32_Witness ==
    /\ response = Call("kill_process_of_staging_order", 1, "True")
    /\ procs[staging_orders[1].pid].signalled
    /\ Len(staging_orders) = 2
    /\ staging_orders[2].status = "staging_in_progress"
    /\ procs[staging_orders[2].pid].state = "running"

\* C33: a StagingOrder has a size exactly when its status is
\* staging_successful; a pending, in-progress or failed order has none.
C33_SizeIffSuccessful ==
    \A o \in StagingIds :
        staging_orders[o].size # None <=> staging_orders[o].status = "staging_successful"

----------------------------------------------------------------------------
(* Further frame and safety properties of the delivery (checked under Spec) *)

\* C34: a deliver call with the skip flag changes nothing but its own new
\* DeliveryOrder row: the staged directory stays in place, no process is
\* spawned and no other order changes.
C34_SkippedDeliveryTouchesOnlyItsRow ==
    [][(/\ response'.op \in DeliverOps
        /\ Len(delivery_orders') = Len(delivery_orders) + 1
        /\ delivery_calls'[Len(delivery_orders')].skip)
       => /\ fs' = fs
          /\ procs' = procs
          /\ staging_orders' = staging_orders
          /\ \A d \in DeliveryIds : delivery_orders'[d] = delivery_orders[d]]_vars

----------------------------------------------------------------------------
(* The duplicate guard under interleaving (checked under SpecProject) *)

\* C35: of two deliver-project requests without force for the same project and
\* source, at most one gets as far as starting an upload, however the two
\* overlap on the event loop.
C35_GuardHoldsUnderInterleaving ==
    \A r1, r2 \in RequestIds :
        (/\ r1 # r2
         /\ requests[r1].route = "deliver_project" /\ requests[r2].route = "deliver_project"
         /\ ~requests[r1].force_delivery /\ ~requests[r2].force_delivery
         /\ requests[r1].project_name = requests[r2].project_name
         /\ requests[r1].source = requests[r2].source)
        => ~(requests[r1].put # 0 /\ requests[r2].put # 0)

----------------------------------------------------------------------------
(* One copy per staging order (checked under SpecStaging) *)

\* C36: at most one copy process is spawned for a StagingOrder: a stage_order
\* call starts a copy only for an order that has no process yet, and a call
\* on an order whose copy was started, whatever became of it, is rejected and
\* spawns nothing.
C36_OneCopyPerStagingOrder ==
    [][response'.op = "stage_order"
       => LET o == response'.id
          IN  /\ response'.val = "suspended"
                 => /\ RsyncPid(o) \notin DOMAIN procs
                    /\ staging_orders[o].pid = None
              /\ RsyncPid(o) \in DOMAIN procs
                 => /\ response'.val = "InvalidStatusException"
                    /\ procs' = procs]_vars

\* stage_order was called again on an order whose copy had exited non-zero,
\* and was rejected
C36_Witness ==
    /\ response = Call("stage_order", 1, "InvalidStatusException")
    /\ RsyncPid(1) \in DOMAIN procs
    /\ procs[RsyncPid(1)].status_code = Some(1)
    /\ copy_dir[1] = "done"

----------------------------------------------------------------------------
(* Uploads and the staged directory (checked under Spec) *)

\* C37: an upload process is spawned, and a DeliveryOrder put in
\* delivery_in_progress, only for a staged directory that exists: once a
\* delivery has removed the directory of a staging order, a later deliver call
\* for that staging id starts no upload.
C37_UploadOnlyOfExistingDirectory ==
    [][\A d \in 1..Len(delivery_orders') :
          PutPid(d) \in DOMAIN procs' \ DOMAIN procs
          => <<"staging_dir", delivery_orders'[d].staging_order_id>> \in fs]_vars

----------------------------------------------------------------------------
(* Properties of organise_with_config (checked under SpecOrganise) *)

\* C38: organise_with_config checks every entry before it performs any
\* operation: when some entry has a required source that is missing, a
\* destination that exists or a link type that is not recognised, the call
\* raises FileNotFoundError, PermissionError or RuntimeError and no file was
\* linked or copied.
C38_InvalidEntryRaisesBeforeAnyOperation ==
    \A r \in RequestIds :
        requests[r].pc = "done"
        => LET files == requests[r].files
               config == requests[r].config
               Invalid(entry) == \/ entry.src \notin files /\ entry.required
                                 \/ entry.dst \in files
                                 \/ entry.link_type \notin {"none", "softlink", "copy"}
           IN  (\E i \in DOMAIN config : Invalid(config[i]))
               => /\ requests[r].answer
                        \in {"FileNotFoundError", "PermissionError", "RuntimeError"}
                  /\ fs = files

\* C38, amended: the destination and the link type count only for an entry
\* whose source exists (an entry whose source is missing and not required is
\* left out unchecked).  When some entry has a required source that is
\* missing, or a source that exists together with a destination that exists
\* or a link type that is not recognised, the call raises the error of the
\* first such entry and no file was linked or copied.
C38_InvalidEntryOfExistingSourceRaises ==
    \A r \in RequestIds :
        requests[r].pc = "done"
        => LET files == requests[r].files
               config == requests[r].config
               Invalid(entry) ==
                   IF entry.src \notin files THEN entry.required
                   ELSE \/ entry.dst \in files
                        \/ entry.link_type \notin {"none", "softlink", "copy"}
               ErrorOf(entry) ==
                   IF entry.src \notin files THEN "FileNotFoundError"
                   ELSE IF entry.dst \in files THEN "PermissionError"
                   ELSE "RuntimeError"
               invalid == {i \in DOMAIN config : Invalid(config[i])}
           IN  invalid # {}
               => /\ requests[r].answer =
                        ErrorOf(config[CHOOSE i \in invalid : \A j \in invalid : i <= j])
                  /\ fs = files

\* the first entry could have been copied, the second names a link type that
\* is not recognised: the call has raised RuntimeError and made nothing
C38_Witness ==
    /\ requests # <<>>
    /\ requests[1].route = "organise_with_config"
    /\ requests[1].pc = "done"
    /\ Len(requests[1].config) = 2
    /\ requests[1].config[1].src \in requests[1].files
    /\ requests[1].config[1].dst \notin requests[1].files
    /\ requests[1].config[1].link_type = "none"
    /\ requests[1].config[2].src \in requests[1].files
    /\ requests[1].config[2].dst \notin requests[1].files
    /\ requests[1].config[2].link_type = "not-a-valid-link-type"
    /\ requests[1].answer = "RuntimeError"
    /\ requests[1].config[1].dst \notin fs

====
